---------------------------- MODULE Spec2Model ----------------------------
(***************************************************************************)
(* NDVI land-surface extraction (src/src/qgis/code_de_surface.py), the     *)
(* yearly pipeline around it (src/src/pipeline_processor.py) and the       *)
(* choice of the image pair of a year (src/src/api/sentinelAPI.py).        *)
(*                                                                         *)
(* Rasters are functions over Cells; band samples are integers; NDVI is    *)
(* kept in hundredths (0.05 is 5); masks are sets of true cells; areas     *)
(* are in square metres.                                                   *)
(***************************************************************************)
EXTENDS Integers, Sequences, FiniteSets, TLC

VARIABLES
    pc,            \* the stage process_ndvi has reached
    cfg,           \* config
    env,           \* what the installed libraries do where the code leaves it open
    redFile,       \* the file at band_red
    nirFile,       \* the file at band_nir
    georef,        \* tr, crs, w, h as read_band returned them
    red, nir,      \* the loaded bands
    ndvi,
    mask, thr,     \* mask_u8, thr of make_binary_from_ndvi
    final_mask, dropped_mean, dropped_p90,
    gdf,           \* gdf, then gdf_m
    out,           \* the shapefile at out_path
    err,           \* the exception that ended the run, "" if none
    trace,         \* the stages run so far, in order
    default_config,\* the module-level dict DEFAULT_CONFIG, as it is now
    calls,         \* the config arguments of the invocations so far, in order
    year_folders,  \* PipelineProcessor: what list_year_folders returned
    idx,           \* PipelineProcessor: the position of the loop over the years
    results,       \* PipelineProcessor: results
    cleaned,       \* PipelineProcessor: the years cleanup_temp ran after
    products,      \* select_best_pairs_per_year: products
    best_pairs     \* select_best_pairs_per_year: best_pairs

\* the state of one invocation of process_ndvi, but for pc
surface == << cfg, env, redFile, nirFile, georef, red, nir, ndvi, mask, thr,
             final_mask, dropped_mean, dropped_p90, gdf, out, err, trace >>

\* the state of pipeline_processor.py and of sentinelAPI.py
batch == << year_folders, idx, results, cleaned, products, best_pairs >>

\* the state that outlives one invocation of process_ndvi
outer == << default_config, calls, batch >>

vars == << pc, surface, outer >>

---------------------------------------------------------------------------
(* Bounds of the model.                                                    *)

\* raster height and width, in pixels
H == 3
W == 3
\* at most this many pixels of a band scene differ from its background
MaxSpots == 1
\* the same, for the inputs of the component filter
MaxFilterSpots == 2
\* at most this many pixels of a final mask are true
MaxLand == 3
\* at most this many invocations of process_ndvi in one session
MaxRuns == 2
\* at most this many folders in the base folder on Drive
MaxFolders == 2
\* at most this many products in the list given to select_best_pairs_per_year
MaxProducts == 4

Rows == 1..H
Cols == 1..W
\* the pixels <<row, column>>
Cells == {<<r, c>> : r \in Rows, c \in Cols}

---------------------------------------------------------------------------
(* Values.                                                                 *)

\* np.nan: the one non-number a float32 cell can hold here
NaN == 9999
isfinite(x) == x # NaN

Abs(x) == IF x < 0 THEN -x ELSE x

\* x / y rounded to the nearest integer (ties away from zero), y > 0
DivRound(x, y) ==
    IF x >= 0 THEN (2 * x + y) \div (2 * y) ELSE -((2 * (-x) + y) \div (2 * y))

RECURSIVE SumOver(_, _)
SumOver(S, f) ==
    IF S = {} THEN 0
    ELSE LET c == CHOOSE x \in S : TRUE IN f[c] + SumOver(S \ {c}, f)

\* row-major position of a cell, as np.ravel and the scan of label and shapes
ScanIndex(c) == (c[1] - 1) * W + c[2]

FirstCell(S) == CHOOSE c \in S : \A d \in S : ScanIndex(c) <= ScanIndex(d)

---------------------------------------------------------------------------
(* DEFAULT_CONFIG.                                                         *)

DEFAULT_CONFIG ==
    [ threshold_mode    |-> "fixed",
      threshold_value   |-> 5,
      median_size       |-> 5,
      morph_radius      |-> 2,
      min_object_pixels |-> 150,
      min_hole_pixels   |-> 150,
      mean_min          |-> 2,
      p90_min           |-> 5,
      FAST_MEAN_ONLY    |-> TRUE,
      min_area_m2       |-> 3000,
      TARGET_EPSG       |-> 32198,
      ADD_TOTAL_FIELD   |-> TRUE,
      TOTAL_FIELD_NAME  |-> "TOT_KM2",
      TOTAL_DECIMALS    |-> 4 ]

---------------------------------------------------------------------------
(* compute_ndvi.                                                           *)

\* a variant of ndvi_cell that puts 0 where the denominator is zero
ndvi_cell_ZeroFill(n, r) ==
    IF ~isfinite(n) \/ ~isfinite(r) THEN NaN
    ELSE IF n + r = 0 THEN 0
    ELSE IF n + r > 0 THEN DivRound((n - r) * 100, n + r)
    ELSE -DivRound((n - r) * 100, -(n + r))

\* one cell of np.where(den != 0, num/den, np.nan), in hundredths: NaN
\* operands give NaN through the division, a zero denominator gives NaN
\* through np.where
ndvi_cell(n, r) ==
    IF ~isfinite(n) \/ ~isfinite(r) THEN NaN
    ELSE IF n + r = 0 THEN NaN
    ELSE IF n + r > 0 THEN DivRound((n - r) * 100, n + r)
    ELSE -DivRound((n - r) * 100, -(n + r))

compute_ndvi(n, r) == [c \in Cells |-> ndvi_cell(n[c], r[c])] @@ << >>

---------------------------------------------------------------------------
(* scipy.ndimage.median_filter(ndvi, size), mode='reflect'.                *)

\* index i of an axis of length n under 'reflect' (d c b a | a b c d | d c b a)
Reflect(i, n) ==
    LET j == (i - 1) % (2 * n) IN IF j < n THEN j + 1 ELSE 2 * n - j

\* the window of a size x size filter with origin 0
WindowOffsets(size) ==
    LET lo == -(size \div 2)
        hi == size - (size \div 2) - 1
    IN {<<y, x>> : y \in lo..hi, x \in lo..hi}

\* The rank filter selects by comparisons, and every comparison with NaN is
\* false: which element of a window holding NaN comes out depends on the
\* selection routine of the build.  env.nan_order is the build's outcome:
\* "nan" (the NaN comes out), "low" / "high" (NaN is ordered below / above
\* every number).
SortKey(v, order) ==
    IF isfinite(v) THEN v ELSE IF order = "low" THEN -NaN ELSE NaN

NanOrders(a, config) ==
    IF config.median_size > 1 /\ (\E c \in Cells : ~isfinite(a[c]))
    THEN {"nan", "low", "high"}
    ELSE {"nan"}

median_cell(a, c, size, order) ==
    LET D    == WindowOffsets(size)
        w    == [d \in D |-> a[<<Reflect(c[1] + d[1], H), Reflect(c[2] + d[2], W)>>]]
                    @@ << >>
        rank == (size * size) \div 2
        k    == [d \in D |-> SortKey(w[d], order)] @@ << >>
        m    == CHOOSE d \in D :
                   /\ Cardinality({e \in D : k[e] < k[d]}) <= rank
                   /\ Cardinality({e \in D : k[e] <= k[d]}) > rank
    IN IF order = "nan" /\ (\E d \in D : ~isfinite(w[d])) THEN NaN ELSE w[m]

median_filter(a, size, order) ==
    [c \in Cells |-> median_cell(a, c, size, order)] @@ << >>

---------------------------------------------------------------------------
(* skimage.morphology on masks (sets of true cells).                       *)

\* disk(r): the offsets within distance r
disk(r) ==
    {d \in {<<y, x>> : y \in -r..r, x \in -r..r} : d[1] * d[1] + d[2] * d[2] <= r * r}

\* the default footprint of binary_opening: generate_binary_structure(2, 1)
DefaultFootprint == disk(1)

Shift(c, d) == <<c[1] + d[1], c[2] + d[2]>>

\* a variant of binary_erosion in which outside the raster counts as false,
\* the default of scipy.ndimage.binary_erosion
binary_erosion_Border0(S, fp) ==
    {c \in Cells : \A d \in fp : Shift(c, d) \in S}

\* binary_erosion: outside the raster counts as true (border_value=True)
binary_erosion(S, fp) ==
    {c \in Cells : \A d \in fp : Shift(c, d) \in Cells => Shift(c, d) \in S}

\* binary_dilation: outside the raster counts as false
binary_dilation(S, fp) == {c \in Cells : \E d \in fp : Shift(c, d) \in S}

binary_opening(S, fp) == binary_dilation(binary_erosion(S, fp), fp)

binary_closing(S, fp) == binary_erosion(binary_dilation(S, fp), fp)

\* the offsets of the 4-neighbours (connectivity 1)
\* a variant of Neighbours4 with the four diagonal neighbours as well:
\* connectivity=2
Neighbours8 == {<<dr, dc>> : dr \in {-1, 0, 1}, dc \in {-1, 0, 1}} \ {<<0, 0>>}

Neighbours4 == {<<-1, 0>>, <<1, 0>>, <<0, -1>>, <<0, 1>>}

\* the 4-connected region of S around the cells R, whose newest cells are F
RECURSIVE Grow(_, _, _)
Grow(S, R, F) ==
    LET N == ({Shift(c, d) : c \in F, d \in Neighbours4} \cap S) \ R
    IN IF N = {} THEN R ELSE Grow(S, R \cup N, N)

\* the 4-connected regions of a set of cells, in the order the row-major
\* scan meets them: the order in which label and ndi.label number them
RECURSIVE LabelRegions(_)
LabelRegions(S) ==
    IF S = {} THEN << >>
    ELSE LET R == Grow(S, {FirstCell(S)}, {FirstCell(S)})
         IN <<R>> \o LabelRegions(S \ R)

Regions(S) == LET region == LabelRegions(S) IN {region[k] : k \in 1..Len(region)}

\* remove_small_objects(mask, min_size): regions smaller than min_size go
remove_small_objects(S, min_size) ==
    UNION {R \in Regions(S) : Cardinality(R) >= min_size}

\* remove_small_holes(mask, area_threshold): remove_small_objects on the
\* inverted mask, inverted back; every false region counts, also one that
\* touches the border
remove_small_holes(S, area_threshold) ==
    Cells \ remove_small_objects(Cells \ S, area_threshold)

---------------------------------------------------------------------------
(* make_binary_from_ndvi.                                                  *)

\* "Lissage": config['median_size'] and config['median_size'] > 1
Smoothed(a, config, order) ==
    IF config.median_size # 0 /\ config.median_size > 1
    THEN median_filter(a, config.median_size, order)
    ELSE a

Valid(a) == {c \in Cells : isfinite(a[c])}

\* "Seuil NDVI": the fixed value, or threshold_otsu over the finite cells.
\* Otsu's value is a histogram-bin centre between the least and the greatest
\* finite value; every finite value of the raster stands for a possible one.
\* Without a finite cell the code takes 0.2.
ThresholdOutcomes(sm, config) ==
    IF config.threshold_mode = "otsu"
    THEN IF Valid(sm) # {} THEN {sm[c] : c \in Valid(sm)} ELSE {20}
    ELSE {config.threshold_value}

\* a variant of Thresholded that keeps the pixels at or below the threshold
Thresholded_AtMost(sm, t) == {c \in Valid(sm) : sm[c] <= t}

\* mask[valid] = ndvi[valid] >= thr
Thresholded(sm, t) == {c \in Valid(sm) : sm[c] >= t}

\* "Morphologie": opening with the default footprint, closing with disk(r)
Morphology(S, config) ==
    IF config.morph_radius > 0
    THEN binary_closing(binary_opening(S, DefaultFootprint), disk(config.morph_radius))
    ELSE S

\* "Nettoyage"
SmallObjectsRemoved(S, config) ==
    IF config.min_object_pixels > 0
    THEN remove_small_objects(S, config.min_object_pixels)
    ELSE S

SmallHolesRemoved(S, config) ==
    IF config.min_hole_pixels > 0
    THEN remove_small_holes(S, config.min_hole_pixels)
    ELSE S

Cleaned(S, config) == SmallHolesRemoved(SmallObjectsRemoved(S, config), config)

\* the mask for threshold t, from the smoothed raster on
MaskFrom(sm, config, t) == Cleaned(Morphology(Thresholded(sm, t), config), config)

\* the mask make_binary_from_ndvi returns when the threshold comes out as t
make_binary_from_ndvi(a, config, order, t) ==
    MaskFrom(Smoothed(a, config, order), config, t)

---------------------------------------------------------------------------
(* fast_label_filter_by_ndvi.                                              *)

Max0(S) == IF S = {} THEN 0 ELSE CHOOSE x \in S : \A y \in S : y <= x

\* means >= mean_min for one bin of the bincounts: sums / np.maximum(counts, 1)
\* over the cells of the bin, of which only the finite ones carry a weight
MeanAtLeast(bin, a, mean_min) ==
    LET n == Cardinality(bin)
    IN SumOver(bin \cap Valid(a), a) >= mean_min * (IF n > 1 THEN n ELSE 1)

\* a variant of Percentile90 that takes the rank int(0.9 * arr.size)
Percentile90_OfSize(bin, a) ==
    LET k == (9 * Cardinality(bin)) \div 10
        m == CHOOSE c \in bin :
                /\ Cardinality({d \in bin : a[d] < a[c]}) <= k
                /\ Cardinality({d \in bin : a[d] <= a[c]}) > k
    IN a[m]

\* part[k] for k = int(0.9 * (arr.size - 1)): the value of rank k (from 0)
\* among the cells of a non-empty set, in ascending order
Percentile90(bin, a) ==
    LET k == (9 * (Cardinality(bin) - 1)) \div 10
        m == CHOOSE c \in bin :
                /\ Cardinality({d \in bin : a[d] < a[c]}) <= k
                /\ Cardinality({d \in bin : a[d] <= a[c]}) > k
    IN a[m]

\* the percentile loop's verdict on one candidate label: TRUE when it drops it
DroppedByP90(bin, a, p90_min) ==
    IF bin = {} THEN TRUE ELSE Percentile90(bin, a) < p90_min

\* a variant of CandLabels in which percentile mode scores every label,
\* whatever the mean test said of it
CandLabels_Independent(keep, nlab, use_p90) ==
    IF use_p90 THEN 1..nlab ELSE {k \in 1..nlab : keep[k]}

\* the labels the mean test keeps; the percentile loop runs over them only
\* (cand_labels), and kept_labels is what is left of them
CandLabels(keep, nlab, use_p90) == {k \in 1..nlab : keep[k]}

\* a variant of KeptPixels that takes the pixels from lbl_valid, the labels
\* with the non-finite pixels zeroed
KeptPixels_Valid(region, valid, kept_labels) ==
    UNION {region[k] \cap valid : k \in kept_labels}

\* np.isin(lbl, kept_labels): every pixel that carries a kept label
KeptPixels(region, valid, kept_labels) == UNION {region[k] : k \in kept_labels}

\* a variant of fast_label_filter_by_ndvi whose dropped_mean counts the
\* regions the mean test dropped, and not those the percentile loop dropped
fast_label_filter_by_ndvi_MeanCount(mask_u8, a, mean_min, p90_min, use_p90) ==
    IF mask_u8 = {}
    THEN [status |-> "ok", final_mask |-> mask_u8, dropped_mean |-> 0,
          dropped_p90 |-> 0]
    ELSE
    LET region    == LabelRegions(mask_u8)
        nlab      == Len(region)
        valid     == Valid(a)
        \* lbl_valid == k, for k >= 1
        lblValid  == [k \in 1..nlab |-> region[k] \cap valid] @@ << >>
        \* lbl_valid == 0: the background and every non-finite cell
        zeroBin   == Cells \ UNION {lblValid[k] : k \in 1..nlab}
        \* len(counts) == len(sums) == lbl_valid.max() + 1
        nbins     == 1 + Max0({k \in 1..nlab : lblValid[k] # {}})
        bin(k)    == IF k = 0 THEN zeroBin ELSE lblValid[k]
        \* keep &= (means >= mean_min): elementwise when the lengths agree,
        \* broadcast when means has the single element of bin 0
        keepMean  == [k \in 1..nlab |->
                        IF nbins = 1 THEN MeanAtLeast(bin(0), a, mean_min)
                        ELSE MeanAtLeast(bin(k), a, mean_min)] @@ << >>
        cand      == CandLabels(keepMean, nlab, use_p90)
        p90Drop   == IF use_p90
                     THEN {k \in cand : DroppedByP90(lblValid[k], a, p90_min)}
                     ELSE {}
        kept      == cand \ p90Drop
    IN IF nbins # nlab + 1 /\ nbins # 1
       THEN \* operands could not be broadcast together
            [status |-> "ValueError", final_mask |-> {}, dropped_mean |-> 0,
             dropped_p90 |-> 0]
       ELSE [status |-> "ok",
             final_mask |-> KeptPixels(region, valid, kept),
             dropped_mean |-> nlab - Cardinality(cand),
             dropped_p90 |-> Cardinality(p90Drop)]

fast_label_filter_by_ndvi(mask_u8, a, mean_min, p90_min, use_p90) ==
    IF mask_u8 = {}
    THEN [status |-> "ok", final_mask |-> mask_u8, dropped_mean |-> 0,
          dropped_p90 |-> 0]
    ELSE
    LET region    == LabelRegions(mask_u8)
        nlab      == Len(region)
        valid     == Valid(a)
        \* lbl_valid == k, for k >= 1
        lblValid  == [k \in 1..nlab |-> region[k] \cap valid] @@ << >>
        \* lbl_valid == 0: the background and every non-finite cell
        zeroBin   == Cells \ UNION {lblValid[k] : k \in 1..nlab}
        \* len(counts) == len(sums) == lbl_valid.max() + 1
        nbins     == 1 + Max0({k \in 1..nlab : lblValid[k] # {}})
        bin(k)    == IF k = 0 THEN zeroBin ELSE lblValid[k]
        \* keep &= (means >= mean_min): elementwise when the lengths agree,
        \* broadcast when means has the single element of bin 0
        keepMean  == [k \in 1..nlab |->
                        IF nbins = 1 THEN MeanAtLeast(bin(0), a, mean_min)
                        ELSE MeanAtLeast(bin(k), a, mean_min)] @@ << >>
        cand      == CandLabels(keepMean, nlab, use_p90)
        p90Drop   == IF use_p90
                     THEN {k \in cand : DroppedByP90(lblValid[k], a, p90_min)}
                     ELSE {}
        kept      == cand \ p90Drop
    IN IF nbins # nlab + 1 /\ nbins # 1
       THEN \* operands could not be broadcast together
            [status |-> "ValueError", final_mask |-> {}, dropped_mean |-> 0,
             dropped_p90 |-> 0]
       ELSE [status |-> "ok",
             final_mask |-> KeptPixels(region, valid, kept),
             dropped_mean |-> nlab - Cardinality(kept),
             dropped_p90 |-> Cardinality(p90Drop)]

---------------------------------------------------------------------------
(* Band files, read_band, reproject_match.                                 *)
(*                                                                         *)
(* A band file is [data, has_nodata, nodata, crs, off, res, w, h]: the     *)
(* samples, the declared nodata value if any, the CRS ("none" when the     *)
(* file has none), the column offset of its transform in whole pixels, the *)
(* pixel size in metres, and its dimensions.                               *)

UTM20N == "EPSG:32620"
NoCRS == "none"

\* the transform of a file, as far as the model tells transforms apart
Transform(f) == [off |-> f.off, res |-> f.res]

\* which of the messages of lines 100-130 read_band prints: none for a
\* declared CRS, else the method that defined the CRS, else "none"
CrsGuess(f, e) ==
    IF f.crs # NoCRS THEN "declared"
    ELSE IF e.wkt_ok THEN "wkt"
    ELSE IF e.proj4_ok THEN "proj4"
    ELSE "none"

\* a variant of read_band that returns the CRS of the file as it is
read_band_AsDeclared(f, e) ==
    [ arr |-> [c \in Cells |->
                 IF f.has_nodata /\ f.data[c] = f.nodata THEN NaN ELSE f.data[c]],
      tr  |-> Transform(f),
      crs |-> f.crs,
      w   |-> f.w,
      h   |-> f.h,
      guess |-> CrsGuess(f, e) ]

\* read_band: nodata and non-finite samples become NaN; a missing CRS is
\* replaced by UTM zone 20N, from WKT, else from PROJ4, else left missing
read_band(f, e) ==
    [ arr |-> [c \in Cells |->
                 IF f.has_nodata /\ f.data[c] = f.nodata THEN NaN ELSE f.data[c]],
      tr  |-> Transform(f),
      crs |-> IF f.crs # NoCRS THEN f.crs
              ELSE IF e.wkt_ok \/ e.proj4_ok THEN UTM20N ELSE NoCRS,
      w   |-> f.w,
      h   |-> f.h,
      guess |-> CrsGuess(f, e) ]

\* rio_reproject(..., resampling=bilinear) between two grids of one CRS
\* whose transforms differ by whole pixels: a destination pixel centre falls
\* on a source pixel centre and takes its sample; a destination pixel
\* outside the source keeps the initial fill, 0.  No nodata value is passed,
\* so a sentinel sample is resampled like every other number.
rio_reproject(f, dst_transform) ==
    [c \in Cells |->
        LET sc == <<c[1], c[2] + (dst_transform.off - f.off)>>
        IN IF sc \in DOMAIN f.data THEN f.data[sc] ELSE 0]

\* a variant of reproject_match whose fallback reads the data whatever the
\* dimensions of the file
reproject_match_AnyFallback(f, dst_transform, dst_crs, dst_w, dst_h, e) ==
    LET src_crs == IF f.crs = NoCRS THEN dst_crs ELSE f.crs
    IN IF /\ src_crs = dst_crs
          /\ Transform(f) = dst_transform
          /\ f.w = dst_w
          /\ f.h = dst_h
       THEN \* "Pas de reprojection nécessaire": src.read(1) as it is
            [ok |-> TRUE, arr |-> f.data]
       ELSE IF src_crs # NoCRS /\ dst_crs # NoCRS /\ e.warp_ok
       THEN [ok |-> TRUE, arr |-> rio_reproject(f, dst_transform)]
       ELSE [ok |-> TRUE, arr |-> f.data]

\* reproject_match: [ok, arr]
reproject_match(f, dst_transform, dst_crs, dst_w, dst_h, e) ==
    LET src_crs == IF f.crs = NoCRS THEN dst_crs ELSE f.crs
    IN IF /\ src_crs = dst_crs
          /\ Transform(f) = dst_transform
          /\ f.w = dst_w
          /\ f.h = dst_h
       THEN \* "Pas de reprojection nécessaire": src.read(1) as it is
            [ok |-> TRUE, arr |-> f.data]
       ELSE IF src_crs # NoCRS /\ dst_crs # NoCRS /\ e.warp_ok
       THEN [ok |-> TRUE, arr |-> rio_reproject(f, dst_transform)]
       ELSE \* the reprojection raised: read the data if the dimensions agree
            IF f.w = dst_w /\ f.h = dst_h
            THEN [ok |-> TRUE, arr |-> f.data]
            ELSE [ok |-> FALSE, arr |-> << >>]

---------------------------------------------------------------------------
(* polygonize, to_metric_for_area and the attribute table.                 *)
(*                                                                         *)
(* A GeoDataFrame is [crs, rows]; a row is [cells, attrs]: the pixels its  *)
(* polygon covers and its columns, a function from column names.           *)

NoAttrs == [n \in {} |-> 0]

\* shapes(..., mask=(binary_arr == 1)): one polygon per 4-connected region
polygonize(binary_arr, crs) ==
    LET region == LabelRegions(binary_arr)
    IN [crs |-> crs,
        rows |-> [k \in 1..Len(region) |-> [cells |-> region[k], attrs |-> NoAttrs]]]

IsEmpty(g) == Len(g.rows) = 0

TargetCRS(config) == "EPSG:32198"

\* gdf.to_crs: [ok, gdf]; a frame without CRS cannot be transformed, and an
\* EPSG code the PROJ database does not resolve raises
to_crs(g, crs, resolves) ==
    IF g.crs = NoCRS \/ crs = NoCRS \/ ~resolves
    THEN [ok |-> FALSE, gdf |-> g]
    ELSE [ok |-> TRUE, gdf |-> [g EXCEPT !.crs = crs]]

\* a geographic CRS, in degrees
WGS84 == "EPSG:4326"

\* CRS.is_projected
IsProjected(crs) == crs \in {UTM20N, "EPSG:32198"}

\* a variant of to_metric_for_area that looks at the source CRS first and
\* reprojects only when it is not projected
to_metric_for_area_SourceFirst(g, config, e) ==
    IF g.crs # NoCRS /\ e.is_projected_ok /\ IsProjected(g.crs)
    THEN [ok |-> TRUE, gdf |-> g]
    ELSE LET first == to_crs(g, TargetCRS(config), e.target_ok)
         IN IF first.ok THEN first ELSE to_crs(g, UTM20N, e.utm_ok)

\* to_metric_for_area: the target EPSG, else the source CRS when it is
\* projected (and RioCRS.from_string reads it: is_projected_ok), else
\* EPSG:32620
to_metric_for_area(g, config, e) ==
    LET first == to_crs(g, TargetCRS(config), e.target_ok)
    IN IF first.ok THEN first
       ELSE IF g.crs # NoCRS /\ e.is_projected_ok /\ IsProjected(g.crs)
       THEN [ok |-> TRUE, gdf |-> g]
       ELSE to_crs(g, UTM20N, e.utm_ok)

\* geometry.area in a metric CRS: pixels times pixel area
Area(cells, res) == Cardinality(cells) * res * res

RECURSIVE Pow10(_)
Pow10(n) == IF n = 0 THEN 1 ELSE 10 * Pow10(n - 1)

\* round(x, decimals) of a km2 value held in m2: to the nearest multiple of
\* 10^(6 - decimals) m2, ties to the even multiple
RoundKm2(x, decimals) ==
    LET q  == Pow10(6 - decimals)
        lo == x \div q
        r  == x - lo * q
    IN IF 2 * r < q THEN lo * q
       ELSE IF 2 * r > q THEN (lo + 1) * q
       ELSE IF lo % 2 = 0 THEN lo * q ELSE (lo + 1) * q

RECURSIVE SumCol(_, _)
SumCol(rows, col) ==
    IF rows = << >> THEN 0 ELSE Head(rows).attrs[col] + SumCol(Tail(rows), col)

SetCol(row, col, v) ==
    [row EXCEPT !.attrs = [n \in (DOMAIN row.attrs) \cup {col} |->
                              IF n = col THEN v ELSE row.attrs[n]]]

\* gdf_m["area_m2"] = gdf_m.geometry.area
WithAreaM2(rows, res) ==
    [k \in 1..Len(rows) |-> SetCol(rows[k], "area_m2", Area(rows[k].cells, res))]

\* a variant of MinAreaFiltered that drops the polygons of exactly min_area_m2
MinAreaFiltered_Strict(rows, config) ==
    LET Keep(r) == r.attrs["area_m2"] > config.min_area_m2
    IN SelectSeq(rows, Keep)

\* config.get(key, default)
Get(config, key, default) ==
    IF key \in DOMAIN config THEN config[key] ELSE default

\* gdf_m = gdf_m[gdf_m["area_m2"] >= config['min_area_m2']]
MinAreaFiltered(rows, config) ==
    LET Keep(r) == r.attrs["area_m2"] >= config.min_area_m2
    IN SelectSeq(rows, Keep)

\* gdf_m["area_km2"] = gdf_m["area_m2"] / 1e6 (held in m2)
WithAreaKm2(rows) ==
    [k \in 1..Len(rows) |-> SetCol(rows[k], "area_km2", rows[k].attrs["area_m2"])]

\* str(config['TOTAL_FIELD_NAME'])[:10]
Truncated10(name) ==
    IF name = "SURFACE_TOTALE" THEN "SURFACE_TO" ELSE name

\* a variant of WithTotal that sums the rounded area_km2 values
WithTotal_OfRounded(rows, config) ==
    IF Get(config, "ADD_TOTAL_FIELD", TRUE) /\ Len(rows) > 0
    THEN LET rounded(k) == RoundKm2(rows[k].attrs["area_km2"], Get(config, "TOTAL_DECIMALS", 4))
             total_km2  == SumOver(1..Len(rows), [k \in 1..Len(rows) |-> rounded(k)])
         IN [k \in 1..Len(rows) |->
                SetCol(rows[k], Truncated10(Get(config, "TOTAL_FIELD_NAME", "TOT_KM2")), total_km2)]
    ELSE rows

\* "Champ total": the rounded sum of area_km2, on every row
WithTotal(rows, config) ==
    IF Get(config, "ADD_TOTAL_FIELD", TRUE) /\ Len(rows) > 0
    THEN LET total_km2 == RoundKm2(SumCol(rows, "area_km2"), Get(config, "TOTAL_DECIMALS", 4))
         IN [k \in 1..Len(rows) |->
                SetCol(rows[k], Truncated10(Get(config, "TOTAL_FIELD_NAME", "TOT_KM2")), total_km2)]
    ELSE rows

\* "Arrondis": gdf_m["area_km2"].round(TOTAL_DECIMALS)
WithRoundedKm2(rows, config) ==
    [k \in 1..Len(rows) |->
        SetCol(rows[k], "area_km2",
               RoundKm2(rows[k].attrs["area_km2"], Get(config, "TOTAL_DECIMALS", 4)))]

\* lines 416-430 on the rows of the metric frame
Attributed(rows, res, config) ==
    WithRoundedKm2(
        WithTotal(WithAreaKm2(MinAreaFiltered(WithAreaM2(rows, res), config)), config),
        config)

---------------------------------------------------------------------------
(* process_ndvi, one action per stage.                                     *)

NoRaster == << >>
NoFrame == [crs |-> NoCRS, rows |-> << >>]
NoFile == [written |-> FALSE, crs |-> NoCRS, rows |-> << >>]
NoGeoref == [tr |-> [off |-> 0, res |-> 0], crs |-> NoCRS, w |-> 0, h |-> 0,
             guess |-> "declared"]

\* a variant of Raise that records the error and leaves the run where it
\* is, so that the stage is tried again
Raise_AndRetry(msg) == pc' = pc /\ err' = msg

Raise(msg) == pc' = "failed" /\ err' = msg

\* config[key] of a key the dict does not hold raises KeyError
Missing(config, keys) == keys \ DOMAIN config # {}

\* the options make_binary_from_ndvi and line 378 subscript; threshold_value
\* is read in fixed mode only
BinarizeKeys(config) ==
    {"median_size", "threshold_mode", "morph_radius", "min_object_pixels",
     "min_hole_pixels"}
    \cup (IF "threshold_mode" \in DOMAIN config /\ config.threshold_mode = "otsu"
          THEN {} ELSE {"threshold_value"})

\* the options lines 389-396 subscript
FilterKeys == {"mean_min", "p90_min", "FAST_MEAN_ONLY"}

\* the options lines 415-420 subscript
AttributeKeys == {"TARGET_EPSG", "min_area_m2"}

\* the pixels of an h x w array
Grid(h, w) == {<<r, c>> : r \in 1..h, c \in 1..w}

\* the height and the width of an array
Height(a) == Max0({c[1] : c \in DOMAIN a})
Width(a) == Max0({c[2] : c \in DOMAIN a})

\* scipy.ndimage.zoom(n, zoom_factors, order=1) to h x w: the corners of the
\* output fall on the corners of the input, and a pixel between takes the
\* bilinear mean of the four input pixels around it, NaN if one of them
\* that weighs is NaN
zoom(n, h, w) ==
    LET hs == Height(n)
        ws == Width(n)
        dr == IF h > 1 THEN h - 1 ELSE 1
        dc == IF w > 1 THEN w - 1 ELSE 1
        At(c) ==
            LET nr == (c[1] - 1) * (hs - 1)
                nc == (c[2] - 1) * (ws - 1)
                r0 == nr \div dr
                c0 == nc \div dc
                fr == nr - r0 * dr
                fc == nc - c0 * dc
                r1 == IF r0 + 1 < hs THEN r0 + 1 ELSE r0
                c1 == IF c0 + 1 < ws THEN c0 + 1 ELSE c0
                corners == { <<r0, c0, (dr - fr) * (dc - fc)>>, <<r0, c1, (dr - fr) * fc>>,
                             <<r1, c0, fr * (dc - fc)>>, <<r1, c1, fr * fc>> }
                used == {k \in corners : k[3] > 0}
                val(k) == n[<<k[1] + 1, k[2] + 1>>]
            IN IF \E k \in used : ~isfinite(val(k)) THEN NaN
               ELSE DivRound(SumOver(used, [k \in used |-> k[3] * val(k)]), dr * dc)
    IN [c \in Grid(h, w) |-> At(c)] @@ << >>

\* ensure_same_shape: NIR as it is, or resized to RED's shape
ensure_same_shape(r, n) ==
    IF DOMAIN r # DOMAIN n THEN zoom(n, Height(r), Width(r)) ELSE n

\* the message of lines 183-186, printed when ensure_same_shape resizes
Resized(r, n) == IF DOMAIN r # DOMAIN n THEN << "resize" >> ELSE << >>

\* lines 356-364
Load ==
    /\ pc = "start"
    /\ \E wkt_ok \in BOOLEAN, proj4_ok \in BOOLEAN, warp_ok \in BOOLEAN :
         LET rb == read_band(redFile, [wkt_ok |-> wkt_ok, proj4_ok |-> proj4_ok])
             rm == reproject_match(nirFile, rb.tr, rb.crs, rb.w, rb.h,
                                   [warp_ok |-> warp_ok])
         IN /\ georef' = [tr |-> rb.tr, crs |-> rb.crs, w |-> rb.w, h |-> rb.h,
                        guess |-> rb.guess]
            /\ red' = rb.arr
            /\ IF rm.ok
               THEN /\ nir' = ensure_same_shape(rb.arr, rm.arr)
                    /\ trace' = Append(trace, "load") \o Resized(rb.arr, rm.arr)
                    /\ pc' = "loaded"
                    /\ err' = err
               ELSE /\ nir' = nir
                    /\ trace' = Append(trace, "load")
                    /\ Raise("reproject")
    /\ UNCHANGED << outer, cfg, env, redFile, nirFile, ndvi, mask, thr, final_mask,
                    dropped_mean, dropped_p90, gdf, out >>

\* line 368
ComputeNdvi ==
    /\ pc = "loaded"
    /\ ndvi' = compute_ndvi(nir, red)
    /\ pc' = "ndvi"
    /\ trace' = Append(trace, "ndvi")
    /\ UNCHANGED << outer, cfg, env, redFile, nirFile, georef, red, nir, mask, thr,
                    final_mask, dropped_mean, dropped_p90, gdf, out, err >>

\* lines 377-382
Binarize ==
    /\ pc = "ndvi"
    /\ IF Missing(cfg, BinarizeKeys(cfg))
       THEN /\ Raise("KeyError")
            /\ UNCHANGED << env, thr, mask >>
       ELSE /\ \E order \in NanOrders(ndvi, cfg) :
               \E t \in ThresholdOutcomes(Smoothed(ndvi, cfg, order), cfg) :
                 /\ env' = [env EXCEPT !.nan_order = order]
                 /\ thr' = t
                 /\ mask' = make_binary_from_ndvi(ndvi, cfg, order, t)
            /\ IF mask' = {}
               THEN Raise("Aucun pixel selectionne. Ajustez les parametres.")
               ELSE pc' = "binarized" /\ err' = err
    /\ trace' = Append(trace, "binarize")
    /\ UNCHANGED << outer, cfg, redFile, nirFile, georef, red, nir, ndvi,
                    final_mask, dropped_mean, dropped_p90, gdf, out >>

\* a variant of Filter without the check of lines 401-402
Filter_Unchecked ==
    /\ pc = "binarized"
    /\ IF Missing(cfg, FilterKeys)
       THEN /\ Raise("KeyError")
            /\ UNCHANGED << final_mask, dropped_mean, dropped_p90 >>
       ELSE
        /\ LET r == fast_label_filter_by_ndvi(mask, ndvi, cfg.mean_min, cfg.p90_min,
                                              ~cfg.FAST_MEAN_ONLY)
           IN /\ final_mask' = r.final_mask
              /\ dropped_mean' = r.dropped_mean
              /\ dropped_p90' = r.dropped_p90
              /\ IF r.status # "ok" THEN Raise(r.status)
                 ELSE pc' = "filtered" /\ err' = err
    /\ trace' = Append(trace, "filter")
    /\ UNCHANGED << outer, cfg, env, redFile, nirFile, georef, red, nir, ndvi, mask,
                    thr, gdf, out >>

\* lines 386-402
Filter ==
    /\ pc = "binarized"
    /\ IF Missing(cfg, FilterKeys)
       THEN /\ Raise("KeyError")
            /\ UNCHANGED << final_mask, dropped_mean, dropped_p90 >>
       ELSE
        /\ LET r == fast_label_filter_by_ndvi(mask, ndvi, cfg.mean_min, cfg.p90_min,
                                              ~cfg.FAST_MEAN_ONLY)
           IN /\ final_mask' = r.final_mask
              /\ dropped_mean' = r.dropped_mean
              /\ dropped_p90' = r.dropped_p90
              /\ IF r.status # "ok" THEN Raise(r.status)
                 ELSE IF r.final_mask = {}
                 THEN Raise("Tous les objets filtres. Ajustez les parametres.")
                 ELSE pc' = "filtered" /\ err' = err
    /\ trace' = Append(trace, "filter")
    /\ UNCHANGED << outer, cfg, env, redFile, nirFile, georef, red, nir, ndvi, mask,
                    thr, gdf, out >>

\* lines 406-409
Vectorize ==
    /\ pc = "filtered"
    /\ gdf' = polygonize(final_mask, georef.crs)
    /\ IF IsEmpty(gdf')
       THEN Raise("Vectorisation vide.")
       ELSE pc' = "vectorized" /\ err' = err
    /\ trace' = Append(trace, "vectorize")
    /\ UNCHANGED << outer, cfg, env, redFile, nirFile, georef, red, nir, ndvi, mask,
                    thr, final_mask, dropped_mean, dropped_p90, out >>

\* lines 415-430
Attribute ==
    /\ pc = "vectorized"
    /\ IF Missing(cfg, AttributeKeys)
       THEN /\ Raise("KeyError")
            /\ gdf' = gdf
       ELSE
        \E target_ok \in BOOLEAN, is_projected_ok \in BOOLEAN, utm_ok \in BOOLEAN :
         LET m == to_metric_for_area(gdf, cfg,
                     [target_ok |-> target_ok, is_projected_ok |-> is_projected_ok,
                      utm_ok |-> utm_ok])
         IN IF m.ok
            THEN /\ gdf' = [crs |-> m.gdf.crs,
                           rows |-> Attributed(m.gdf.rows, georef.tr.res, cfg)]
                 /\ pc' = "attributed"
                 /\ err' = err
            ELSE /\ gdf' = gdf
                 /\ Raise("CRSError")
    /\ trace' = Append(trace, "attribute")
    /\ UNCHANGED << outer, cfg, env, redFile, nirFile, georef, red, nir, ndvi, mask,
                    thr, final_mask, dropped_mean, dropped_p90, out >>

\* a variant of to_file that has created the file when it raises
to_file_Partial(g, empty_raises) ==
    IF IsEmpty(g) /\ empty_raises
    THEN [ok |-> FALSE, file |-> [written |-> TRUE, crs |-> g.crs, rows |-> << >>]]
    ELSE [ok |-> TRUE, file |-> [written |-> TRUE, crs |-> g.crs, rows |-> g.rows]]

\* gdf_out.to_file(out_path): [ok, file].  Whether to_file accepts a frame
\* without rows depends on the installed geopandas: it writes the file, or
\* raises before it creates one.
to_file(g, empty_raises) ==
    IF IsEmpty(g) /\ empty_raises
    THEN [ok |-> FALSE, file |-> NoFile]
    ELSE [ok |-> TRUE, file |-> [written |-> TRUE, crs |-> g.crs, rows |-> g.rows]]

\* lines 433-437: back to the source CRS, then to_file
Write ==
    /\ pc = "attributed"
    /\ LET back == to_crs(gdf, georef.crs, TRUE)
       IN IF ~back.ok
          THEN /\ out' = out
               /\ Raise("CRSError")
          ELSE \E empty_raises \in BOOLEAN :
                 LET w == to_file(back.gdf, empty_raises)
                 IN /\ out' = w.file
                    /\ IF w.ok
                       THEN pc' = "done" /\ err' = err
                       ELSE Raise("Cannot write empty DataFrame to file.")
    /\ trace' = Append(trace, "write")
    /\ UNCHANGED << outer, cfg, env, redFile, nirFile, georef, red, nir, ndvi, mask,
                    thr, final_mask, dropped_mean, dropped_p90, gdf >>

---------------------------------------------------------------------------
(* The inputs of the model.                                                *)

Paint(bg, f) == [c \in Cells |-> IF c \in DOMAIN f THEN f[c] ELSE bg] @@ << >>

\* the rasters that hold a value of bgs everywhere but on at most n pixels,
\* which hold values of vals
RECURSIVE SubsetsUpTo(_)
SubsetsUpTo(n) ==
    IF n = 0 THEN {{}}
    ELSE LET P == SubsetsUpTo(n - 1) IN P \cup {T \cup {c} : T \in P, c \in Cells}

Scenes(bgs, vals, n) ==
    {Paint(b, f) : b \in bgs, f \in UNION {[S -> vals] : S \in SubsetsUpTo(n)}}

\* <<red, nir>> samples: water (NDVI 0), land (NDVI 0.6), and the nodata
\* sentinel 0 in the red or in the near-infrared band
Water == <<5, 5>>
Land == <<5, 20>>
RedNodata == <<0, 20>>
NirNodata == <<5, 0>>

BandFile(data, crs, off) ==
    [data |-> data, has_nodata |-> TRUE, nodata |-> 0, crs |-> crs,
     off |-> off, res |-> 20, w |-> W, h |-> H]

\* how the two files are georeferenced: <<RED's CRS, NIR's CRS, NIR's offset>>
Georeferencings ==
    { <<UTM20N, UTM20N, 0>>, <<UTM20N, UTM20N, 1>>, <<UTM20N, NoCRS, 0>>,
      <<NoCRS, NoCRS, 0>>, <<NoCRS, UTM20N, 0>> }

With(base, over) == over @@ base

Override(over) == With(DEFAULT_CONFIG, over)

\* no smoothing, no morphology, no clean-up, no minimum area
PlainConfig ==
    Override([median_size |-> 1, morph_radius |-> 0, min_object_pixels |-> 0,
              min_hole_pixels |-> 0, min_area_m2 |-> 0])

PipelineConfigs ==
    { DEFAULT_CONFIG,
      PlainConfig,
      With(PlainConfig, [min_area_m2 |-> 3000]),
      With(PlainConfig, [min_hole_pixels |-> 2]),
      With(PlainConfig, [FAST_MEAN_ONLY |-> FALSE, TOTAL_DECIMALS |-> 3]),
      Override([median_size |-> 3, morph_radius |-> 1, min_object_pixels |-> 2,
                min_hole_pixels |-> 2, min_area_m2 |-> 800]),
      With(PlainConfig, [threshold_mode |-> "otsu", median_size |-> 3]) }

\* pipeline_processor.py and sentinelAPI.py at rest
InitBatch ==
    /\ year_folders = << >>
    /\ idx = 0
    /\ results = << >>
    /\ cleaned = << >>
    /\ products = << >>
    /\ best_pairs = << >>

\* the module as imported: DEFAULT_CONFIG holds the literal of lines 66-81
InitOuter ==
    /\ default_config = DEFAULT_CONFIG
    /\ calls = << >>
    /\ InitBatch

InitRun ==
    /\ env = [nan_order |-> "nan"]
    /\ georef = NoGeoref
    /\ red = NoRaster
    /\ nir = NoRaster
    /\ ndvi = NoRaster
    /\ mask = {}
    /\ thr = 0
    /\ final_mask = {}
    /\ dropped_mean = 0
    /\ dropped_p90 = 0
    /\ gdf = NoFrame
    /\ out = NoFile
    /\ err = ""
    /\ trace = << >>

\* the band pairs of the model: every scene on one grid, and the uniform
\* scenes under every georeferencing
BandPairs ==
    {<<s, <<UTM20N, UTM20N, 0>> >> :
        s \in Scenes({Water, Land}, {Water, Land, RedNodata, NirNodata}, MaxSpots)}
    \cup (Scenes({Water, Land}, {Water}, 0) \X Georeferencings)

\* process_ndvi(band_red, band_nir, output_dir, output_name, config)
Init ==
    /\ pc = "start"
    /\ cfg \in PipelineConfigs
    /\ \E p \in BandPairs :
         /\ redFile = BandFile([c \in Cells |-> p[1][c][1]] @@ << >>, p[2][1], 0)
         /\ nirFile = BandFile([c \in Cells |-> p[1][c][2]] @@ << >>, p[2][2], p[2][3])
    /\ InitRun
    /\ InitOuter

Next ==
    \/ Load
    \/ ComputeNdvi
    \/ Binarize
    \/ Filter
    \/ Vectorize
    \/ Attribute
    \/ Write

Spec == Init /\ [][Next]_vars

---------------------------------------------------------------------------
(* process_ndvi with a config dict that lacks an option.                   *)

Without(config, key) == [k \in DOMAIN config \ {key} |-> config[k]]

\* config=None, which line 337 replaces by a copy of DEFAULT_CONFIG, and
\* the dicts that hold every option of DEFAULT_CONFIG but one
PartialConfigs ==
    {DEFAULT_CONFIG} \cup {Without(DEFAULT_CONFIG, k) : k \in DOMAIN DEFAULT_CONFIG}

InitConfig ==
    /\ pc = "start"
    /\ cfg \in PartialConfigs
    /\ \E p \in BandPairs :
         /\ redFile = BandFile([c \in Cells |-> p[1][c][1]] @@ << >>, p[2][1], 0)
         /\ nirFile = BandFile([c \in Cells |-> p[1][c][2]] @@ << >>, p[2][2], p[2][3])
    /\ InitRun
    /\ InitOuter

SpecConfig == InitConfig /\ [][Next]_vars

---------------------------------------------------------------------------
(* compute_ndvi on its own: any two bands.                                 *)

\* <<red, nir>> samples: positive reflectances, among them a pair whose
\* NDVI rounds to 1 and one whose NDVI rounds to -1, zero and opposite
\* samples, a negative sample, and NaN in either band
BandSamples ==
    { <<5, 20>>, <<20, 5>>, <<1, 1000>>, <<1000, 1>>, <<0, 0>>, <<5, -5>>,
      <<-1, 3>>, <<NaN, 5>>, <<5, NaN>> }

InitNdvi ==
    /\ pc = "loaded"
    /\ cfg = DEFAULT_CONFIG
    /\ env = [nan_order |-> "nan"]
    /\ redFile = BandFile(NoRaster, UTM20N, 0)
    /\ nirFile = BandFile(NoRaster, UTM20N, 0)
    /\ georef = [tr |-> [off |-> 0, res |-> 20], crs |-> UTM20N, w |-> W, h |-> H,
                 guess |-> "declared"]
    /\ \E scene \in Scenes({Water, Land}, BandSamples, MaxSpots) :
         /\ red = [c \in Cells |-> scene[c][1]] @@ << >>
         /\ nir = [c \in Cells |-> scene[c][2]] @@ << >>
    /\ ndvi = NoRaster
    /\ mask = {}
    /\ thr = 0
    /\ final_mask = {}
    /\ dropped_mean = 0
    /\ dropped_p90 = 0
    /\ gdf = NoFrame
    /\ out = NoFile
    /\ err = ""
    /\ trace = << >>
    /\ InitOuter

SpecNdvi == InitNdvi /\ [][ComputeNdvi]_vars

---------------------------------------------------------------------------
(* make_binary_from_ndvi on its own: any NDVI raster, any configuration.   *)

\* <<min_object_pixels, min_hole_pixels>>: small floors, and the defaults
CleanUps == { <<0, 0>>, <<2, 0>>, <<0, 2>>, <<150, 150>> }

BinaryConfigs ==
    { With(PlainConfig, [threshold_value |-> 30, median_size |-> ms, morph_radius |-> mr,
                         min_object_pixels |-> cl[1], min_hole_pixels |-> cl[2]]) :
        ms \in {1, 3}, mr \in {0, 1, 2}, cl \in CleanUps }

\* the thresholds the masks of one raster are compared at
ThresholdSamples == {0, 70}

InitBinary ==
    /\ pc = "ndvi"
    /\ cfg \in BinaryConfigs
    /\ env = [nan_order |-> "nan"]
    /\ redFile = BandFile(NoRaster, UTM20N, 0)
    /\ nirFile = BandFile(NoRaster, UTM20N, 0)
    /\ georef = [tr |-> [off |-> 0, res |-> 20], crs |-> UTM20N, w |-> W, h |-> H,
                 guess |-> "declared"]
    /\ red = NoRaster
    /\ nir = NoRaster
    /\ ndvi \in Scenes({0, 30}, {NaN, 0, 30}, MaxSpots)
    /\ mask = {}
    /\ thr = 0
    /\ final_mask = {}
    /\ dropped_mean = 0
    /\ dropped_p90 = 0
    /\ gdf = NoFrame
    /\ out = NoFile
    /\ err = ""
    /\ trace = << >>
    /\ InitOuter

SpecBinary == InitBinary /\ [][Binarize]_vars

---------------------------------------------------------------------------
(* fast_label_filter_by_ndvi on its own: any mask, any NDVI raster.        *)

\* a pixel of a filter input: <<in the mask, NDVI>>
FilterScenes ==
    Scenes({<<FALSE, 0>>}, {<<TRUE, 5>>, <<TRUE, NaN>>, <<TRUE, -100>>}, MaxFilterSpots)
    \cup Scenes({<<TRUE, 5>>}, {<<FALSE, 0>>, <<TRUE, NaN>>, <<TRUE, -100>>}, MaxFilterSpots)

FilterConfigs ==
    { With(PlainConfig, [mean_min |-> mm, FAST_MEAN_ONLY |-> fast]) :
        mm \in {2, 0}, fast \in BOOLEAN }

\* final_mask, dropped_mean, dropped_p90 = fast_label_filter_by_ndvi(...)
CallFilter ==
    /\ pc = "call_filter"
    /\ LET r == fast_label_filter_by_ndvi(mask, ndvi, cfg.mean_min, cfg.p90_min,
                                          ~cfg.FAST_MEAN_ONLY)
       IN /\ final_mask' = r.final_mask
          /\ dropped_mean' = r.dropped_mean
          /\ dropped_p90' = r.dropped_p90
          /\ IF r.status = "ok"
             THEN pc' = "returned" /\ err' = err
             ELSE Raise(r.status)
    /\ trace' = Append(trace, "filter")
    /\ UNCHANGED << outer, cfg, env, redFile, nirFile, georef, red, nir, ndvi, mask,
                    thr, gdf, out >>

InitFilter ==
    /\ pc = "call_filter"
    /\ cfg \in FilterConfigs
    /\ env = [nan_order |-> "nan"]
    /\ redFile = BandFile(NoRaster, UTM20N, 0)
    /\ nirFile = BandFile(NoRaster, UTM20N, 0)
    /\ georef = [tr |-> [off |-> 0, res |-> 20], crs |-> UTM20N, w |-> W, h |-> H,
                 guess |-> "declared"]
    /\ red = NoRaster
    /\ nir = NoRaster
    /\ \E scene \in FilterScenes :
         /\ mask = {c \in Cells : scene[c][1]}
         /\ ndvi = [c \in Cells |-> scene[c][2]] @@ << >>
    /\ thr = cfg.threshold_value
    /\ final_mask = {}
    /\ dropped_mean = 0
    /\ dropped_p90 = 0
    /\ gdf = NoFrame
    /\ out = NoFile
    /\ err = ""
    /\ trace = << >>
    /\ InitOuter

SpecFilter == InitFilter /\ [][CallFilter]_vars

---------------------------------------------------------------------------
(* Lines 406-437 on their own: any final mask.                             *)

AreaConfigs ==
    { With(PlainConfig, [min_area_m2 |-> ma, TOTAL_DECIMALS |-> d, ADD_TOTAL_FIELD |-> add]) :
        ma \in {0, 800, 3000}, d \in {3, 4}, add \in BOOLEAN }

InitArea ==
    /\ pc = "filtered"
    /\ cfg \in AreaConfigs
    /\ env = [nan_order |-> "nan"]
    /\ redFile = BandFile(NoRaster, UTM20N, 0)
    /\ nirFile = BandFile(NoRaster, UTM20N, 0)
    /\ georef = [tr |-> [off |-> 0, res |-> 20], crs |-> UTM20N, w |-> W, h |-> H,
                 guess |-> "declared"]
    /\ red = NoRaster
    /\ nir = NoRaster
    /\ ndvi = NoRaster
    /\ mask = {}
    /\ thr = cfg.threshold_value
    /\ final_mask \in SubsetsUpTo(MaxLand) \ {{}}
    /\ dropped_mean = 0
    /\ dropped_p90 = 0
    /\ gdf = NoFrame
    /\ out = NoFile
    /\ err = ""
    /\ trace = << >>
    /\ InitOuter

NextArea ==
    \/ Vectorize
    \/ Attribute
    \/ Write

SpecArea == InitArea /\ [][NextArea]_vars

---------------------------------------------------------------------------
(* to_metric_for_area on its own: any frame, any PROJ installation.  env   *)
(* says which of the three steps of the chain the installation lets        *)
(* succeed; final_mask and georef.crs keep the frame the call was given.   *)

\* gdf_m = to_metric_for_area(gdf, config['TARGET_EPSG'])
CallMetric ==
    /\ pc = "call_metric"
    /\ LET m == to_metric_for_area(gdf, cfg, env)
       IN /\ gdf' = m.gdf
          /\ IF m.ok
             THEN pc' = "returned" /\ err' = err
             ELSE Raise("CRSError")
    /\ trace' = Append(trace, "metric")
    /\ UNCHANGED << outer, cfg, env, redFile, nirFile, georef, red, nir, ndvi, mask,
                    thr, final_mask, dropped_mean, dropped_p90, out >>

InitMetric ==
    /\ pc = "call_metric"
    /\ cfg = DEFAULT_CONFIG
    /\ \E target_ok \in BOOLEAN, is_projected_ok \in BOOLEAN, utm_ok \in BOOLEAN :
         env = [nan_order |-> "nan", target_ok |-> target_ok,
                is_projected_ok |-> is_projected_ok, utm_ok |-> utm_ok]
    /\ redFile = BandFile(NoRaster, UTM20N, 0)
    /\ nirFile = BandFile(NoRaster, UTM20N, 0)
    /\ \E crs \in {UTM20N, WGS84, NoCRS} :
         georef = [tr |-> [off |-> 0, res |-> 20], crs |-> crs, w |-> W, h |-> H,
                   guess |-> "declared"]
    /\ red = NoRaster
    /\ nir = NoRaster
    /\ ndvi = NoRaster
    /\ mask = {}
    /\ thr = cfg.threshold_value
    /\ final_mask \in SubsetsUpTo(MaxLand) \ {{}}
    /\ dropped_mean = 0
    /\ dropped_p90 = 0
    /\ gdf = polygonize(final_mask, georef.crs)
    /\ out = NoFile
    /\ err = ""
    /\ trace = << >>
    /\ InitOuter

SpecMetric == InitMetric /\ [][CallMetric]_vars

---------------------------------------------------------------------------
(* A session: process_ndvi invoked several times in one process, as        *)
(* PipelineProcessor.process_pair does once per year.  calls is the        *)
(* history of the config arguments; default_config is the module's dict.   *)

\* config=None
None == [is_none |-> TRUE]

\* config=c, a dict of the caller; cfg is then the caller's own object
Passed(c) == [is_none |-> FALSE, dict |-> c]

RunArgs ==
    { None,
      Passed(PlainConfig),
      Passed(With(PlainConfig, [FAST_MEAN_ONLY |-> FALSE, TOTAL_DECIMALS |-> 3])),
      Passed(With(PlainConfig, [threshold_mode |-> "otsu", median_size |-> 3])) }

\* uniform scenes on one grid
RunPairs == Scenes({Water, Land}, {Water}, 0) \X {<<UTM20N, UTM20N, 0>>}

\* a variant of Invoke that merges the caller's options into the module's
\* dict and runs on that dict: DEFAULT_CONFIG.update(config)
Invoke_MergedIntoDefaults ==
    /\ pc \in {"idle", "done", "failed"}
    /\ Len(calls) < MaxRuns
    /\ \E a \in RunArgs, p \in RunPairs :
         /\ calls' = Append(calls, a)
         /\ default_config' = IF a.is_none THEN default_config
                               ELSE With(default_config, a.dict)
         /\ cfg' = default_config'
         /\ redFile' = BandFile([c \in Cells |-> p[1][c][1]] @@ << >>, p[2][1], 0)
         /\ nirFile' = BandFile([c \in Cells |-> p[1][c][2]] @@ << >>, p[2][2], p[2][3])
    /\ env' = [nan_order |-> "nan"]
    /\ georef' = NoGeoref
    /\ red' = NoRaster
    /\ nir' = NoRaster
    /\ ndvi' = NoRaster
    /\ mask' = {}
    /\ thr' = 0
    /\ final_mask' = {}
    /\ dropped_mean' = 0
    /\ dropped_p90' = 0
    /\ gdf' = NoFrame
    /\ out' = NoFile
    /\ err' = ""
    /\ trace' = << >>
    /\ pc' = "start"
    /\ UNCHANGED batch

\* process_ndvi(band_red, band_nir, output_dir, output_name, config), called
\* when no run is under way: lines 336-337 bind config, every other local
\* starts afresh
Invoke ==
    /\ pc \in {"idle", "done", "failed"}
    /\ Len(calls) < MaxRuns
    /\ \E a \in RunArgs, p \in RunPairs :
         /\ calls' = Append(calls, a)
         /\ default_config' = default_config
         \* DEFAULT_CONFIG.copy(): a new dict with the module's entries
         /\ cfg' = IF a.is_none THEN default_config ELSE a.dict
         /\ redFile' = BandFile([c \in Cells |-> p[1][c][1]] @@ << >>, p[2][1], 0)
         /\ nirFile' = BandFile([c \in Cells |-> p[1][c][2]] @@ << >>, p[2][2], p[2][3])
    /\ env' = [nan_order |-> "nan"]
    /\ georef' = NoGeoref
    /\ red' = NoRaster
    /\ nir' = NoRaster
    /\ ndvi' = NoRaster
    /\ mask' = {}
    /\ thr' = 0
    /\ final_mask' = {}
    /\ dropped_mean' = 0
    /\ dropped_p90' = 0
    /\ gdf' = NoFrame
    /\ out' = NoFile
    /\ err' = ""
    /\ trace' = << >>
    /\ pc' = "start"
    /\ UNCHANGED batch

\* the module imported, nothing called yet
InitRuns ==
    /\ pc = "idle"
    /\ cfg = DEFAULT_CONFIG
    /\ redFile = BandFile(NoRaster, UTM20N, 0)
    /\ nirFile = BandFile(NoRaster, UTM20N, 0)
    /\ InitRun
    /\ InitOuter

NextRuns ==
    \/ Invoke
    \/ Load
    \/ ComputeNdvi
    \/ Binarize
    \/ Filter
    \/ Vectorize
    \/ Attribute
    \/ Write

SpecRuns == InitRuns /\ [][NextRuns]_vars

---------------------------------------------------------------------------
(* Lines 406-437 under every name of the total column, among them the      *)
(* names of the two area columns.                                          *)

FieldConfigs ==
    { With(PlainConfig, [min_area_m2 |-> ma, TOTAL_FIELD_NAME |-> n, ADD_TOTAL_FIELD |-> add]) :
        ma \in {0, 800}, n \in {"TOT_KM2", "SURFACE_TOTALE", "area_km2", "area_m2"},
        add \in BOOLEAN }

InitFields ==
    /\ pc = "filtered"
    /\ cfg \in FieldConfigs
    /\ env = [nan_order |-> "nan"]
    /\ redFile = BandFile(NoRaster, UTM20N, 0)
    /\ nirFile = BandFile(NoRaster, UTM20N, 0)
    /\ georef = [tr |-> [off |-> 0, res |-> 20], crs |-> UTM20N, w |-> W, h |-> H,
                 guess |-> "declared"]
    /\ red = NoRaster
    /\ nir = NoRaster
    /\ ndvi = NoRaster
    /\ mask = {}
    /\ thr = cfg.threshold_value
    /\ final_mask \in SubsetsUpTo(MaxLand) \ {{}}
    /\ dropped_mean = 0
    /\ dropped_p90 = 0
    /\ gdf = NoFrame
    /\ out = NoFile
    /\ err = ""
    /\ trace = << >>
    /\ InitOuter

SpecFields == InitFields /\ [][NextArea]_vars

---------------------------------------------------------------------------
(* fast_label_filter_by_ndvi in percentile mode: regions whose pixels are  *)
(* at p90_min or just below it.                                            *)

P90Scenes ==
    Scenes({<<FALSE, 0>>}, {<<TRUE, 5>>, <<TRUE, 0>>, <<TRUE, NaN>>}, MaxFilterSpots)
    \cup Scenes({<<TRUE, 5>>}, {<<FALSE, 0>>, <<TRUE, 0>>, <<TRUE, NaN>>}, MaxFilterSpots)

P90Configs ==
    { With(PlainConfig, [mean_min |-> mm, FAST_MEAN_ONLY |-> FALSE]) : mm \in {2, 0} }

InitP90 ==
    /\ pc = "call_filter"
    /\ cfg \in P90Configs
    /\ env = [nan_order |-> "nan"]
    /\ redFile = BandFile(NoRaster, UTM20N, 0)
    /\ nirFile = BandFile(NoRaster, UTM20N, 0)
    /\ georef = [tr |-> [off |-> 0, res |-> 20], crs |-> UTM20N, w |-> W, h |-> H,
                 guess |-> "declared"]
    /\ red = NoRaster
    /\ nir = NoRaster
    /\ \E scene \in P90Scenes :
         /\ mask = {c \in Cells : scene[c][1]}
         /\ ndvi = [c \in Cells |-> scene[c][2]] @@ << >>
    /\ thr = cfg.threshold_value
    /\ final_mask = {}
    /\ dropped_mean = 0
    /\ dropped_p90 = 0
    /\ gdf = NoFrame
    /\ out = NoFile
    /\ err = ""
    /\ trace = << >>
    /\ InitOuter

SpecP90 == InitP90 /\ [][CallFilter]_vars

---------------------------------------------------------------------------
(* Lines 356-364 on their own: a NIR file of RED's dimensions, or one      *)
(* column or one row short of them.                                        *)

\* <<height, width>> of the NIR file
NirShapes == { <<H, W>>, <<H, W - 1>>, <<H - 1, W>> }

\* the NIR files of one shape: uniform samples, or with one nodata pixel
NirFiles(h, w, crs, off) ==
    { [BandFile([c \in Grid(h, w) |-> IF c \in spot THEN 0 ELSE bg] @@ << >>, crs, off)
          EXCEPT !.w = w, !.h = h] :
        bg \in {5, 20}, spot \in {{}} \cup {{c} : c \in Grid(h, w)} }

InitLoad ==
    /\ pc = "start"
    /\ cfg = PlainConfig
    /\ \E g \in Georeferencings, shape \in NirShapes :
         /\ redFile = BandFile(Paint(5, << >>), g[1], 0)
         /\ nirFile \in NirFiles(shape[1], shape[2], g[2], g[3])
    /\ InitRun
    /\ InitOuter

SpecLoad == InitLoad /\ [][Load]_vars

---------------------------------------------------------------------------
(* PipelineProcessor.process_all_years (src/src/pipeline_processor.py).    *)
(*                                                                         *)
(* A folder of the Drive listing is [name, fate]; fate says what the year  *)
(* of the folder runs into: no ZIP file in it, a download or an extraction *)
(* that raises, no TCI file in the extracted products, a single TCI file,  *)
(* the mosaic step raising, the surface step raising, or a shapefile.      *)

\* the listings of the base folder: Drive lets two folders bear one name
Listings ==
    LET Folders == [name : {"2020", "2021", "1999", "notes"},
                    fate : {"no_zip", "download_raises", "no_tci", "one_tci",
                            "mosaic_raises", "surface_raises", "shapefile"}]
    IN UNION {[1..n -> Folders] : n \in 0..MaxFolders}

\* list_year_folders: the folders whose name is an integer from 2000 to
\* 2100, sorted by year; sorted() keeps the folders of one year in the
\* order of the listing
list_year_folders(files) ==
    LET \* int(file['name']), 0 standing for ValueError
        year(name) == CASE name = "2020" -> 2020
                        [] name = "2021" -> 2021
                        [] name = "1999" -> 1999
                        [] OTHER -> 0
        IsYear(f) == year(f.name) # 0 /\ 2000 <= year(f.name) /\ year(f.name) <= 2100
        found == SelectSeq(files, IsYear)
        entry(f) == [name |-> f.name, year |-> year(f.name), fate |-> f.fate]
        RECURSIVE insert(_, _)
        insert(sq, x) ==
            IF sq = << >> \/ sq[Len(sq)].year <= x.year THEN Append(sq, x)
            ELSE Append(insert(SubSeq(sq, 1, Len(sq) - 1), x), sq[Len(sq)])
        RECURSIVE sorted(_)
        sorted(sq) ==
            IF sq = << >> THEN << >>
            ELSE insert(sorted(SubSeq(sq, 1, Len(sq) - 1)), entry(sq[Len(sq)]))
    IN sorted(found)

\* process_pair: None with fewer than two TCI files; else the path of the
\* shapefile, surface_<year>.shp, or None when process_tci_pair or
\* process_ndvi raised, which the except of line 259 catches
process_pair(year, tci_files, fate) ==
    IF tci_files < 2 THEN None
    ELSE IF fate \in {"mosaic_raises", "surface_raises"} THEN None
    ELSE [is_none |-> FALSE, path |-> year]

\* one turn of the loop of lines 315-379 over year_folders
ProcessYear ==
    /\ pc = "year"
    /\ LET folder == year_folders[idx]
           year == folder.year
           \* len(tci_files): find_tci_files after the downloads
           tci_files == CASE folder.fate = "no_tci" -> 0
                          [] folder.fate = "one_tci" -> 1
                          [] OTHER -> 2
           shapefile_path == process_pair(year, tci_files, folder.fate)
           next == IF idx = Len(year_folders) THEN "pipeline_done" ELSE "year"
       IN IF folder.fate = "no_zip"
          THEN \* if not files: continue
               /\ pc' = next
               /\ UNCHANGED << results, cleaned >>
          ELSE IF folder.fate = "download_raises"
          THEN \* download_file and extract_zip are called outside any try
               /\ pc' = "pipeline_failed"
               /\ UNCHANGED << results, cleaned >>
          ELSE IF tci_files = 0
          THEN \* if not tci_files: cleanup_temp(), continue
               /\ pc' = next
               /\ results' = results
               /\ cleaned' = Append(cleaned, year)
          ELSE /\ pc' = next
               /\ results' =
                     Append(results,
                            [year |-> year, shapefile |-> shapefile_path,
                             status |-> IF shapefile_path.is_none THEN "failed"
                                        ELSE "success"])
               /\ cleaned' = Append(cleaned, year)
    /\ idx' = idx + 1
    /\ UNCHANGED << surface, default_config, calls, year_folders, products, best_pairs >>

\* lines 279-313: the base folder, the year folders, results = []
StartPipeline ==
    /\ pc = "pipeline_start"
    /\ \E found \in BOOLEAN, files \in Listings :
         /\ year_folders' = IF found THEN list_year_folders(files) ELSE << >>
         /\ pc' = IF year_folders' = << >> THEN "pipeline_done" ELSE "year"
    /\ idx' = 1
    /\ results' = << >>
    /\ cleaned' = << >>
    /\ UNCHANGED << surface, default_config, calls, products, best_pairs >>

InitPipeline ==
    /\ pc = "pipeline_start"
    /\ cfg = DEFAULT_CONFIG
    /\ redFile = BandFile(NoRaster, UTM20N, 0)
    /\ nirFile = BandFile(NoRaster, UTM20N, 0)
    /\ InitRun
    /\ InitOuter

NextPipeline ==
    \/ StartPipeline
    \/ ProcessYear

SpecPipeline == InitPipeline /\ [][NextPipeline]_vars

---------------------------------------------------------------------------
(* select_best_pairs_per_year (src/src/api/sentinelAPI.py).                *)
(*                                                                         *)
(* A product is [year, acq, tile, cloud]: the year of capture_datetime,    *)
(* the acquisition key and the tile code read from its name, and its       *)
(* cloud_cover in percent.                                                 *)

\* cloud_cover is None
NoCloud == -1

\* the product lists of the model: up to MaxProducts different products of
\* three acquisitions, two of 2020 and one of 2021, over the two tiles of
\* the islands and a third one
ProductLists ==
    LET Kinds == { [year |-> k[1], acq |-> k[2], tile |-> t, cloud |-> c] :
                     k \in {<<2020, "a">>, <<2020, "b">>, <<2021, "c">>},
                     t \in {"T20TNT", "T20TPT", "T20TNS"},
                     c \in {NoCloud, 10, 30} }
        RECURSIVE UpTo(_)
        UpTo(n) == IF n = 0 THEN {{}}
                   ELSE LET P == UpTo(n - 1) IN P \cup {T \cup {x} : T \in P, x \in Kinds}
        RECURSIVE ListOf(_)
        ListOf(S) == IF S = {} THEN << >>
                     ELSE LET x == CHOOSE x \in S : TRUE IN <<x>> \o ListOf(S \ {x})
    IN {ListOf(S) : S \in UpTo(MaxProducts)}

\* a variant of BestPair that takes the last pair of the sorted list
BestPair_Last(valid_pairs) ==
    LET i == CHOOSE i \in 1..Len(valid_pairs) :
                \A j \in 1..Len(valid_pairs) :
                    /\ valid_pairs[j].avg_cloud <= valid_pairs[i].avg_cloud
                    /\ j > i => valid_pairs[j].avg_cloud < valid_pairs[i].avg_cloud
    IN valid_pairs[i]

\* valid_pairs.sort(key=avg_cloud), valid_pairs[0]: sort is stable, so the
\* first of the pairs of lowest avg_cloud
BestPair(valid_pairs) ==
    LET i == CHOOSE i \in 1..Len(valid_pairs) :
                \A j \in 1..Len(valid_pairs) :
                    /\ valid_pairs[j].avg_cloud >= valid_pairs[i].avg_cloud
                    /\ j < i => valid_pairs[j].avg_cloud > valid_pairs[i].avg_cloud
    IN valid_pairs[i]

\* select_best_pairs_per_year(products): best_pairs, a dict over the years;
\* avg_cloud is kept as the sum of the two cloud covers
select_best_pairs_per_year(prods) ==
    LET years == {prods[i].year : i \in 1..Len(prods)}
        \* the keys of acquisitions_by_year[year], in the order of insertion
        RECURSIVE keys(_, _)
        keys(year, n) ==
            IF n = 0 THEN << >>
            ELSE LET before == keys(year, n - 1)
                 IN IF prods[n].year = year
                       /\ \A i \in 1..Len(before) : before[i] # prods[n].acq
                    THEN Append(before, prods[n].acq)
                    ELSE before
        images(year, key) ==
            LET In(q) == q.year = year /\ q.acq = key IN SelectSeq(prods, In)
        \* tiles_dict[tile] after the loop of lines 1293-1306 over imgs: the
        \* first image of the tile, replaced by every later one of known and
        \* lower cloud cover
        RECURSIVE kept(_, _)
        kept(imgs, tile) ==
            IF imgs = << >> THEN << >>
            ELSE LET img  == imgs[Len(imgs)]
                     prev == kept(SubSeq(imgs, 1, Len(imgs) - 1), tile)
                 IN IF img.tile # tile THEN prev
                    ELSE IF prev = << >> THEN <<img>>
                    ELSE IF img.cloud # NoCloud
                            /\ (prev[1].cloud = NoCloud \/ img.cloud < prev[1].cloud)
                    THEN <<img>>
                    ELSE prev
        \* the valid_pairs entry of one acquisition, if it has one
        pair(year, key) ==
            LET imgs == images(year, key)
                tiles_dict == {imgs[i].tile : i \in 1..Len(imgs)}
                tnt == kept(imgs, "T20TNT")
                tpt == kept(imgs, "T20TPT")
            IN IF /\ "T20TNT" \in tiles_dict
                  /\ "T20TPT" \in tiles_dict
                  /\ Cardinality(tiles_dict) = 2
                  /\ tnt[1].cloud # NoCloud
                  /\ tpt[1].cloud # NoCloud
               THEN << [key |-> key, images |-> <<tnt[1], tpt[1]>>,
                        avg_cloud |-> tnt[1].cloud + tpt[1].cloud] >>
               ELSE << >>
        RECURSIVE valid(_, _)
        valid(year, ks) ==
            IF ks = << >> THEN << >>
            ELSE pair(year, Head(ks)) \o valid(year, Tail(ks))
        best(year) ==
            LET valid_pairs == valid(year, keys(year, Len(prods)))
            IN IF valid_pairs # << >> THEN BestPair(valid_pairs).images ELSE << >>
    IN [y \in years |-> best(y)] @@ << >>

\* best_pairs = select_best_pairs_per_year(products)
CallSelect ==
    /\ pc = "call_select"
    /\ best_pairs' = select_best_pairs_per_year(products)
    /\ pc' = "selected"
    /\ UNCHANGED << surface, default_config, calls, year_folders, idx, results,
                    cleaned, products >>

InitSelect ==
    /\ pc = "call_select"
    /\ cfg = DEFAULT_CONFIG
    /\ redFile = BandFile(NoRaster, UTM20N, 0)
    /\ nirFile = BandFile(NoRaster, UTM20N, 0)
    /\ InitRun
    /\ default_config = DEFAULT_CONFIG
    /\ calls = << >>
    /\ year_folders = << >>
    /\ idx = 0
    /\ results = << >>
    /\ cleaned = << >>
    /\ products \in ProductLists
    /\ best_pairs = << >>

SpecSelect == InitSelect /\ [][CallSelect]_vars

---------------------------------------------------------------------------
(* The claims.                                                             *)

\* the stage has run
Ran(stage) == \E i \in 1..Len(trace) : trace[i] = stage

\* the regions of a mask without one finite NDVI pixel
ZeroFiniteRegions == {R \in Regions(mask) : R \cap Valid(ndvi) = {}}

\* the mean NDVI over the finite pixels of R is below m
MeanBelow(R, m) ==
    LET fin == R \cap Valid(ndvi)
    IN fin # {} /\ SumOver(fin, ndvi) < m * Cardinality(fin)

\* the 90th percentile of the finite pixels of R is at least p
P90AtLeast(R, p) ==
    LET fin == R \cap Valid(ndvi)
    IN fin # {} /\ Percentile90(fin, ndvi) >= p

\* C1 (as claimed): once the mask is made, a cell that is NaN in RED or in
\* NIR is NaN in the NDVI raster and is not true in the mask.
C1_NodataNeverInMask ==
    Ran("binarize") =>
        \A c \in Cells :
            (~isfinite(red[c]) \/ ~isfinite(nir[c])) =>
                (~isfinite(ndvi[c]) /\ c \notin mask)

\* C2 (as claimed): once the bands are loaded, no cell of RED or of NIR
\* still holds the nodata value of its file as a number.
C2_NodataNormalized ==
    pc = "loaded" =>
        \A c \in Cells :
            /\ redFile.has_nodata => red[c] # redFile.nodata
            /\ nirFile.has_nodata => nir[c] # nirFile.nodata

\* the name of the total column
TotalField == Truncated10(cfg.TOTAL_FIELD_NAME)

C4_NoWriteOfEmptySet == Ran("write") => ~IsEmpty(gdf)

\* C5 (as claimed): in fixed mode, when NDVI is below threshold_value at
\* every pixel, the mask is all false and the run has ended with the "no
\* pixel selected" failure, without a shapefile.
C5_AllBelowThresholdAborts ==
    ( /\ Ran("binarize")
      /\ cfg.threshold_mode = "fixed"
      /\ \A c \in Cells : isfinite(ndvi[c]) /\ ndvi[c] < cfg.threshold_value )
    => ( /\ mask = {}
         /\ pc = "failed"
         /\ err = "Aucun pixel selectionne. Ajustez les parametres."
         /\ ~out.written )

\* C6 (as claimed): when the filter returns, every region without a finite
\* NDVI pixel is dropped, and these regions are counted in dropped_p90 and
\* not in dropped_mean.
C6_ZeroFiniteDroppedAsP90 ==
    pc = "returned" =>
        /\ \A R \in ZeroFiniteRegions : R \cap final_mask = {}
        /\ dropped_p90 >= Cardinality(ZeroFiniteRegions)
        /\ dropped_mean <= Cardinality(Regions(mask)) - Cardinality(ZeroFiniteRegions)

\* C7 (as claimed): a region whose mean NDVI is below mean_min and whose
\* 90th percentile is at least p90_min is dropped in mean-only mode and
\* survives in percentile mode.
C7_ModesDiverge ==
    pc = "returned" =>
        \A R \in Regions(mask) :
            (MeanBelow(R, cfg.mean_min) /\ P90AtLeast(R, cfg.p90_min)) =>
                IF cfg.FAST_MEAN_ONLY THEN R \cap final_mask = {}
                ELSE R \subseteq final_mask

\* C7 (amended): a region whose mean NDVI is below mean_min is dropped in
\* mean-only mode and in percentile mode alike, whatever its 90th
\* percentile: the percentile test runs only on regions the mean test kept.
C7_LowMeanDroppedInBothModes ==
    pc = "returned" =>
        \A R \in Regions(mask) :
            MeanBelow(R, cfg.mean_min) => R \cap final_mask = {}

\* C7 witness: percentile mode has dropped a region of low mean and high
\* 90th percentile
C7_Witness ==
    /\ pc = "returned"
    /\ ~cfg.FAST_MEAN_ONLY
    /\ \E R \in Regions(mask) :
         /\ MeanBelow(R, cfg.mean_min)
         /\ P90AtLeast(R, cfg.p90_min)
         /\ R \cap final_mask = {}

\* C8: in fixed mode the mask of a raster has at most as many true pixels
\* at a higher threshold_value, and at least as many at a lower one, the
\* configuration being otherwise the same.
C8_ThresholdMonotone ==
    (Ran("binarize") /\ cfg.threshold_mode = "fixed") =>
        \A t \in ThresholdSamples :
            LET other == make_binary_from_ndvi(ndvi, cfg, env.nan_order, t)
            IN /\ t >= thr => Cardinality(other) <= Cardinality(mask)
               /\ t <= thr => Cardinality(other) >= Cardinality(mask)

\* C8 witness: a mask that loses pixels at a higher threshold
C8_Witness ==
    /\ Ran("binarize")
    /\ cfg.threshold_mode = "fixed"
    /\ mask # {}
    /\ cfg.median_size > 1
    /\ cfg.morph_radius > 0
    /\ \E t \in ThresholdSamples :
         /\ t > thr
         /\ Cardinality(make_binary_from_ndvi(ndvi, cfg, env.nan_order, t))
              < Cardinality(mask)

\* C9 (as claimed): no region of the mask handed to the Component Filter
\* has fewer than min_object_pixels pixels.
C9_NoSmallRegionReachesFilter ==
    pc = "binarized" =>
        \A R \in Regions(mask) : Cardinality(R) >= cfg.min_object_pixels

\* the polygons of the Vectorizer that the minimum area lets through
LargeEnough ==
    {R \in Regions(final_mask) : Area(R, georef.tr.res) >= cfg.min_area_m2}

MeanAtLeastAlone(R, m) ==
    LET fin == R \cap Valid(ndvi)
    IN fin # {} /\ SumOver(fin, ndvi) >= m * Cardinality(fin)

\* C11 (as claimed): in mean-only mode the final mask is the union of the
\* regions of the input mask whose mean NDVI over their finite pixels,
\* computed region by region, is at least mean_min.
C11_MeanOnlyKeepsByRegionMean ==
    (pc = "returned" /\ cfg.FAST_MEAN_ONLY) =>
        final_mask = UNION {R \in Regions(mask) : MeanAtLeastAlone(R, cfg.mean_min)}

\* C12: the mask the filter returns is a subset of the input mask and a
\* union of whole regions of it: a region is in it with every pixel, the
\* pixels of non-finite NDVI too, or with none, and no background pixel is.
C12_OutputByLabelMembership ==
    pc = "returned" =>
        /\ final_mask \subseteq mask
        /\ \A R \in Regions(mask) : R \subseteq final_mask \/ R \cap final_mask = {}

\* C12 witness: a surviving region with a pixel of non-finite NDVI, beside
\* background
C12_Witness ==
    /\ pc = "returned"
    /\ mask # Cells
    /\ \E R \in Regions(mask) :
         /\ R \subseteq final_mask
         /\ R \cap Valid(ndvi) # R

\* the stages of process_ndvi, in the order of the code
Stages == << "load", "ndvi", "binarize", "filter", "vectorize", "attribute", "write" >>

FilterReturned == Ran("filter") /\ err \notin {"ValueError", "KeyError"}

\* C14: when the Classifier has returned an all-false mask the run has
\* failed with the "no pixel selected" message and the Component Filter has
\* not run; when the Component Filter has returned an all-false mask the
\* run has failed with the "all objects filtered" message, a different one,
\* and the Vectorizer has not run.
C14_EmptyMaskAborts ==
    /\ (Ran("binarize") /\ err # "KeyError" /\ mask = {}) =>
          /\ pc = "failed"
          /\ err = "Aucun pixel selectionne. Ajustez les parametres."
          /\ ~Ran("filter")
    /\ (FilterReturned /\ final_mask = {}) =>
          /\ pc = "failed"
          /\ err = "Tous les objets filtres. Ajustez les parametres."
          /\ ~Ran("vectorize")

\* C14 witness: the Classifier's mask was not empty, and the Component
\* Filter has emptied it
C14_Witness ==
    /\ FilterReturned
    /\ mask # {}
    /\ final_mask = {}
    /\ pc = "failed"

\* C15 (as claimed): a run whose config lacks an option does not fail on
\* the missing option.
C15_MissingOptionHasDefault ==
    pc = "failed" => err # "KeyError"

\* the mask of the last Binarize right after the threshold, before the
\* morphology
ThresholdedMask == Thresholded(Smoothed(ndvi, cfg, env.nan_order), thr)

\* C16: with morph_radius > 0, the opening and closing turn an all-true
\* thresholded mask into the all-true mask and an all-false one into the
\* all-false mask; without clean-up that is the mask the Classifier returns.
C16_MorphologyOnTrivialMasks ==
    (Ran("binarize") /\ cfg.morph_radius > 0) =>
        LET NoCleanUp == cfg.min_object_pixels = 0 /\ cfg.min_hole_pixels = 0
        IN /\ ThresholdedMask = Cells =>
                /\ Morphology(ThresholdedMask, cfg) = Cells
                /\ NoCleanUp => mask = Cells
           /\ ThresholdedMask = {} =>
                /\ Morphology(ThresholdedMask, cfg) = {}
                /\ NoCleanUp => mask = {}

\* C16 witness: an all-true thresholded mask has gone through an opening
\* and a closing with disk(2), which reaches beyond the raster
C16_Witness ==
    /\ Ran("binarize")
    /\ cfg.morph_radius = 2
    /\ cfg.min_object_pixels = 0
    /\ cfg.min_hole_pixels = 0
    /\ ThresholdedMask = Cells
    /\ mask = Cells

\* C17: once NDVI is computed, a cell whose RED and NIR are both finite and
\* positive holds an NDVI in [-1, 1], and a cell whose RED and NIR are
\* finite and sum to zero holds NaN.
C17_NdviBounds ==
    Ran("ndvi") =>
        \A c \in Cells :
            /\ (isfinite(red[c]) /\ isfinite(nir[c]) /\ red[c] > 0 /\ nir[c] > 0) =>
                  (isfinite(ndvi[c]) /\ ndvi[c] >= -100 /\ ndvi[c] <= 100)
            /\ (isfinite(red[c]) /\ isfinite(nir[c]) /\ red[c] + nir[c] = 0) =>
                  ~isfinite(ndvi[c])

\* C17 witness: an NDVI raster with cells of positive RED and NIR beside a
\* cell of zero denominator
C17_Witness ==
    /\ Ran("ndvi")
    /\ \E c \in Cells : red[c] > 0 /\ nir[c] > 0 /\ isfinite(nir[c]) /\ isfinite(red[c])
                        /\ ndvi[c] = 60
    /\ \E c \in Cells : isfinite(red[c]) /\ isfinite(nir[c]) /\ red[c] + nir[c] = 0
                        /\ ~isfinite(ndvi[c])

\* the frame to_metric_for_area was called with
MetricInput == polygonize(final_mask, georef.crs)

\* C18: after to_metric_for_area, for a frame with a CRS: when the target
\* EPSG resolves the frame is in the target CRS, whatever the source CRS;
\* when it does not and the source CRS is projected the frame is returned
\* unchanged; when neither, and EPSG:32620 resolves, the frame is in
\* EPSG:32620; and the call has failed only when all three have failed.
C18_FallbackChain ==
    Ran("metric") =>
        LET hasCRS    == georef.crs # NoCRS
            projected == env.is_projected_ok /\ IsProjected(georef.crs)
        IN /\ (hasCRS /\ env.target_ok) =>
                 /\ pc = "returned"
                 /\ gdf = [MetricInput EXCEPT !.crs = TargetCRS(cfg)]
           /\ (hasCRS /\ ~env.target_ok /\ projected) =>
                 /\ pc = "returned"
                 /\ gdf = MetricInput
           /\ (hasCRS /\ ~env.target_ok /\ ~projected /\ env.utm_ok) =>
                 /\ pc = "returned"
                 /\ gdf = [MetricInput EXCEPT !.crs = UTM20N]
           /\ pc = "failed" =>
                 /\ err = "CRSError"
                 /\ ~hasCRS \/ (~env.target_ok /\ ~projected /\ ~env.utm_ok)

\* C18 witness: the target EPSG failed, the source CRS is geographic, and
\* the frame has come back in EPSG:32620
C18_Witness ==
    /\ Ran("metric")
    /\ pc = "returned"
    /\ georef.crs = WGS84
    /\ ~env.target_ok
    /\ gdf.crs = UTM20N

\* C19 (as claimed): once the bands are loaded, the CRS read_band returned
\* for RED is not absent.
C19_CrsNeverAbsent ==
    Ran("load") => georef.crs # NoCRS

\* C19 (amended): a RED file with a CRS keeps it; for one without,
\* read_band returns UTM zone 20N when it could define it from WKT or from
\* PROJ4 and no CRS when it could not; a NIR file without CRS on RED's grid
\* is taken as being in RED's CRS and read as it is; a run whose RED CRS is
\* absent fails in the Area Computer with a CRS error, and every shapefile
\* written carries the CRS read_band returned.
C19_CrsSubstitution ==
    Ran("load") =>
        /\ redFile.crs # NoCRS =>
              (georef.crs = redFile.crs /\ georef.guess = "declared")
        /\ redFile.crs = NoCRS =>
              \/ georef.guess \in {"wkt", "proj4"} /\ georef.crs = UTM20N
              \/ georef.guess = "none" /\ georef.crs = NoCRS
        /\ (nirFile.crs = NoCRS /\ Transform(nirFile) = georef.tr) =>
              (nir = nirFile.data /\ err # "reproject")
        /\ (georef.crs = NoCRS /\ Ran("attribute")) =>
              (pc = "failed" /\ err = "CRSError")
        /\ out.written => (georef.crs # NoCRS /\ out.crs = georef.crs)

\* C19 witness: both files lack a CRS and the run has written its shapefile
C19_Witness ==
    /\ pc = "done"
    /\ redFile.crs = NoCRS
    /\ nirFile.crs = NoCRS
    /\ georef.guess \in {"wkt", "proj4"}
    /\ out.written

\* C20: the stages that have run are the first stages of Loader, NDVI
\* Computer, Classifier, Component Filter, Vectorizer, Area Computer and
\* shapefile write, in that order and each once.
C20_StageOrder ==
    /\ Len(trace) <= Len(Stages)
    /\ trace = SubSeq(Stages, 1, Len(trace))

\* C20 witness: a run that went through the seven stages
C20_Witness ==
    /\ pc = "done"
    /\ trace = Stages

\* C21: invocations of process_ndvi share no mutable state.  At every
\* moment of a session the module's DEFAULT_CONFIG holds the documented
\* values; the config of a run called with config=None holds exactly those
\* values, whatever the runs before it were given; the config of a run
\* called with a dict still holds what the caller passed; and a run starts
\* with every local afresh.
C21_NoSharedState ==
    /\ default_config = DEFAULT_CONFIG
    /\ calls # << >> =>
          LET a == calls[Len(calls)]
          IN IF a.is_none THEN cfg = DEFAULT_CONFIG ELSE cfg = a.dict
    /\ pc = "start" => InitRun

\* C21 witness: a run with config=None, called after a run with other
\* options, has binarized with the documented defaults.
C21_Witness ==
    /\ Len(calls) >= 2
    /\ calls[Len(calls)].is_none
    /\ ~calls[Len(calls) - 1].is_none
    /\ calls[Len(calls) - 1].dict # DEFAULT_CONFIG
    /\ Ran("binarize")
    /\ cfg = DEFAULT_CONFIG

\* the Vectorizer's polygons that pass the minimum-area filter
Surviving ==
    {R \in Regions(final_mask) : Area(R, georef.tr.res) >= cfg.min_area_m2}

\* C22 (as claimed): the shapefile holds one record per surviving polygon;
\* a record carries area_m2 and area_km2, the area of its own polygon (in
\* km2 rounded to TOTAL_DECIMALS), and the total column, named by
\* TOTAL_FIELD_NAME cut to 10 characters, exactly when ADD_TOTAL_FIELD is
\* true: writing the total has replaced no area_m2 or area_km2 value.
C22_RecordAttributes ==
    pc = "done" =>
        /\ {out.rows[i].cells : i \in 1..Len(out.rows)} = Surviving
        /\ Len(out.rows) = Cardinality(Surviving)
        /\ \A i \in 1..Len(out.rows) :
              LET a == out.rows[i].attrs
                  m2 == Area(out.rows[i].cells, georef.tr.res)
              IN /\ DOMAIN a = {"area_m2", "area_km2"}
                      \cup (IF cfg.ADD_TOTAL_FIELD THEN {TotalField} ELSE {})
                 /\ a["area_m2"] = m2
                 /\ a["area_km2"] = RoundKm2(m2, cfg.TOTAL_DECIMALS)

\* the finite pixels of R, n of them, hold at most floor(0.9 * (n - 1))
\* values below p: the value of that rank, from 0 in ascending order, is at
\* least p
RankedAtLeast(R, p) ==
    LET fin == R \cap Valid(ndvi)
    IN /\ fin # {}
       /\ Cardinality({c \in fin : ndvi[c] < p}) <= (9 * (Cardinality(fin) - 1)) \div 10

\* the mask the filter returns for the same input in mean-only mode
MeanOnlyMask ==
    fast_label_filter_by_ndvi(mask, ndvi, cfg.mean_min, cfg.p90_min, FALSE).final_mask

\* C23: when the filter returns in percentile mode, a region of the input
\* mask is in the final mask exactly when its mean NDVI over its finite
\* pixels is at least mean_min and the value of rank floor(0.9 * (n - 1))
\* among its n finite pixels is at least p90_min; and the final mask is a
\* subset of the one mean-only mode returns for the same input.
C23_PercentileAddsATest ==
    (pc = "returned" /\ ~cfg.FAST_MEAN_ONLY) =>
        /\ \A R \in Regions(mask) :
              R \subseteq final_mask
                  <=> (MeanAtLeastAlone(R, cfg.mean_min) /\ RankedAtLeast(R, cfg.p90_min))
        /\ final_mask \subseteq MeanOnlyMask

\* C23 witness: a region that passes the mean test and fails the
\* percentile test: mean-only mode keeps it, percentile mode has dropped it.
C23_Witness ==
    /\ pc = "returned"
    /\ ~cfg.FAST_MEAN_ONLY
    /\ \E R \in Regions(mask) :
         /\ MeanAtLeastAlone(R, cfg.mean_min)
         /\ ~RankedAtLeast(R, cfg.p90_min)
         /\ R \cap Valid(ndvi) # {}
         /\ R \cap final_mask = {}
         /\ R \subseteq MeanOnlyMask

\* C24 (as claimed): whatever the mask and the NDVI raster, a call of
\* fast_label_filter_by_ndvi has returned a mask and the two counts: it has
\* not raised.
C24_FilterNeverFails ==
    Ran("filter") => (pc = "returned" /\ err = "")

\* the true pixels that share an edge with p
EdgeTouching(p) == {q \in mask : Abs(q[1] - p[1]) + Abs(q[2] - p[2]) = 1}

\* the true pixels that touch p at a corner
CornerTouching(p) == {q \in mask : Abs(q[1] - p[1]) = 1 /\ Abs(q[2] - p[2]) = 1}

\* the score of a pixel of finite NDVI taken as a region of its own: its
\* NDVI is its mean and its 90th percentile
PassesAlone(p) ==
    /\ ndvi[p] >= cfg.mean_min
    /\ cfg.FAST_MEAN_ONLY \/ ndvi[p] >= cfg.p90_min

\* C25: regions are 4-connected.  When the filter returns, a true pixel of
\* finite NDVI that shares no edge with a true pixel and touches one at a
\* corner is a region apart from it: it is in the final mask exactly when
\* its own NDVI passes the tests, whatever becomes of the pixel at its
\* corner.
C25_CornerContactDoesNotJoin ==
    pc = "returned" =>
        \A p \in mask \cap Valid(ndvi) :
            (EdgeTouching(p) = {} /\ CornerTouching(p) # {}) =>
                (p \in final_mask <=> PassesAlone(p))

\* C25 witness: of two true pixels that touch at a corner only, one is kept
\* and the other is dropped.
C25_Witness ==
    /\ pc = "returned"
    /\ \E p \in mask \cap Valid(ndvi) :
         /\ EdgeTouching(p) = {}
         /\ p \in final_mask
         /\ \E q \in CornerTouching(p) : EdgeTouching(q) = {} /\ q \notin final_mask

\* NIR is on RED's grid: the CRS of RED, or none, and RED's transform, width
\* and height
OnRedGrid ==
    /\ nirFile.crs \in {georef.crs, NoCRS}
    /\ Transform(nirFile) = georef.tr
    /\ nirFile.w = georef.w
    /\ nirFile.h = georef.h

\* C26 (as claimed): once the bands are loaded, NIR holds the samples of its
\* file unchanged when the file is on RED's grid, and in every other case
\* the samples resampled onto RED's grid.
C26_PassthroughOrResample ==
    Ran("load") =>
        /\ pc # "failed"
        /\ nir = IF OnRedGrid THEN nirFile.data
                 ELSE rio_reproject(nirFile, georef.tr)

\* the regions of the input mask that are in the final mask
SurvivingRegions == {R \in Regions(mask) : R \subseteq final_mask}

\* C27: when the filter returns, in either mode, the number of regions of
\* the input mask that are in the final mask plus dropped_mean is the
\* number of regions of the input mask; dropped_p90 is at most dropped_mean,
\* and is 0 in mean-only mode.
C27_DroppedMeanCountsEveryDrop ==
    pc = "returned" =>
        /\ Cardinality(SurvivingRegions) + dropped_mean = Cardinality(Regions(mask))
        /\ dropped_p90 <= dropped_mean
        /\ cfg.FAST_MEAN_ONLY => dropped_p90 = 0

\* C27 witness: in percentile mode a region dropped by the percentile loop
\* is counted in dropped_p90 and in dropped_mean, beside a surviving region.
C27_Witness ==
    /\ pc = "returned"
    /\ ~cfg.FAST_MEAN_ONLY
    /\ dropped_p90 = 1
    /\ dropped_mean = 1
    /\ Cardinality(Regions(mask)) = 2
    /\ Cardinality(SurvivingRegions) = 1

\* C30: once reproject_match has returned, NIR has RED's shape, whatever
\* the dimensions of the NIR file and whichever path was taken, and
\* ensure_same_shape has not resized it: the run has not printed the
\* message of the resize branch.
C30_NirHasRedShape ==
    (Ran("load") /\ pc # "failed") =>
        /\ ~Ran("resize")
        /\ DOMAIN nir = DOMAIN red
        /\ DOMAIN red = Grid(georef.h, georef.w)

\* C30 witness: a NIR file of other dimensions than RED's has been loaded
\* onto RED's grid.
C30_Witness ==
    /\ pc = "loaded"
    /\ <<nirFile.h, nirFile.w>> # <<georef.h, georef.w>>
    /\ DOMAIN nir = Grid(georef.h, georef.w)

\* the parts of C28 that do not count the entries of a year: results is in
\* ascending year order; an entry is a success exactly when it holds a
\* shapefile path; every year the loop has been through in which
\* process_pair was called has its entry, a failure when process_pair
\* returned None, and the loop went on, ending only with the last year or
\* with a download that raised; and cleanup_temp has run once for every
\* such year whose TCI files were searched.
C28_Recorded ==
    LET VisitedOf(fates) ==
            {k \in 1..Len(year_folders) : k < idx /\ year_folders[k].fate \in fates}
    IN pc \in {"year", "pipeline_done", "pipeline_failed"} =>
        /\ \A i, j \in 1..Len(results) :
              i < j => results[i].year <= results[j].year
        /\ \A i \in 1..Len(results) :
              results[i].status = "success" <=> ~results[i].shapefile.is_none
        /\ Len(results)
              = Cardinality(VisitedOf({"one_tci", "mosaic_raises", "surface_raises",
                                       "shapefile"}))
        /\ Cardinality({i \in 1..Len(results) : results[i].status = "success"})
              = Cardinality(VisitedOf({"shapefile"}))
        /\ pc = "pipeline_failed" =>
              year_folders[idx - 1].fate = "download_raises"
        /\ pc = "pipeline_done" => idx = Len(year_folders) + 1
        /\ Len(cleaned)
              = Cardinality(VisitedOf({"no_tci", "one_tci", "mosaic_raises",
                                       "surface_raises", "shapefile"}))

\* C28 (as claimed): all of the above, and results holds at most one entry
\* per year.
C28_OneEntryPerYear ==
    /\ C28_Recorded
    /\ \A i, j \in 1..Len(results) :
          i # j => results[i].year # results[j].year

===========================================================================
